---- MODULE Spec2Model ----
(***************************************************************************)
(* A model of the notification relay of maqibg/ccdd:                       *)
(*   src/notify-sound.js   lines   1-155  the sound module (notify-sound)  *)
(*                         lines 156-550  the notification system          *)
(*                                        (readStdinJson,                  *)
(*                                        extractTaskSummary,              *)
(*                                        NotificationSystem, main)        *)
(*   src/telegram-notify.js               the Telegram channel             *)
(* The module NotificationManager (./notification-manager) is required by  *)
(* the notification system but is not among the sources; its dispatch is   *)
(* modelled from section 4.3 of the specification.                         *)
(***************************************************************************)
EXTENDS Integers, Sequences, FiniteSets, TLC

VARIABLES
    \* ---- the notification system process (main, sendAllNotifications)
    pc,            \* position of main: "start", "readStdin", "dispatch", "waitExit"
    exitStatus,    \* "running", "exit0" (process.exit(0)), "uncaught" (exit code 1)
    config,        \* the resolved configuration snapshot
    stdinTTY,      \* process.stdin.isTTY
    stdinPending,  \* lines the pipe has not delivered yet
    stdinWillClose,\* whether the writer ever closes the pipe
    stdinData,     \* readStdinJson: data
    rlState,       \* readline interface: "none", "open", "closed"
    stdinTimer,    \* the 1000 ms timeout of readStdinJson is pending
    hookResolved,  \* the promise of readStdinJson is resolved
    hookInput,     \* its value
    message,       \* result of generateMessage
    outcome,       \* per channel: what the adapter's deliver did
    results,       \* per channel: the DeliveryResult of the dispatch
    escaped,       \* an exception or rejection left the dispatch step
    soundTimer,    \* the 1000 ms log timer of the sound channel is pending
    exitTimer,     \* the 3000 ms exit timer is pending
    summaryPrinted,\* printNotificationSummary has run
    primary,       \* the primary audio process
    beeps,         \* the fallback tone processes started, in order
    history,       \* the order of the run's observable events
    \* ---- one call of generateMessage (notification system)
    sumPc,         \* "ready", "done"
    sumHook,       \* this.hookInput
    sumFallback,   \* the fallbackMessage argument
    sumFile,       \* the file at hookInput.transcript_path
    sumSummary,    \* what extractTaskSummary returned for it
    sumMessage,    \* what generateMessage returned
    \* ---- the message of one call of notifyTaskCompletion (Telegram)
    msgPc,         \* "call", "done"
    msgTask,       \* the taskInfo argument
    msgProject,    \* the projectName argument
    msgDate,       \* new Date()
    msgStatus,     \* status
    msgFixedLength,\* fixedLength
    msgContent,    \* contentText, before it is escaped
    msgEscaped,    \* escapedContent
    msgMessage,    \* message, as handed to sendMessage
    \* ---- the delivery of one call of notifyTaskCompletion (Telegram)
    tgPc,          \* "call", "sending", "done"
    tgConfig,      \* config.json's flag and the environment's token, chat and proxy
    tgEnabled,     \* notifier.enabled
    tgLog,         \* what was written to the console, in order
    tgStage,       \* how far the exchange is: "none", "connect", "request", "body",
                   \* "ended", "failed", "aborted", "thrown"
    tgConnect,     \* the CONNECT requests sent and the status of the answer
    tgTls,         \* the TLS session the POST travels over
    tgPosts,       \* the POST requests issued
    tgBody,        \* the body of the response, as the chunks it arrives in
    tgPending,     \* the chunks not delivered yet
    tgResponseData,\* _handleResponse: responseData
    tgResolved,    \* the promise of _sendPayload is resolved
    tgValue,       \* its value
    tgResult       \* what notifyTaskCompletion returned: "none", "true", "false"

sysVars == <<pc, exitStatus, config, stdinTTY, stdinPending, stdinWillClose,
             stdinData, rlState, stdinTimer, hookResolved, hookInput, message,
             outcome, results, escaped, soundTimer, exitTimer, summaryPrinted, primary,
             beeps, history>>
sumVars == <<sumPc, sumHook, sumFallback, sumFile, sumSummary, sumMessage>>
msgVars == <<msgPc, msgTask, msgProject, msgDate, msgStatus, msgFixedLength,
             msgContent, msgEscaped, msgMessage>>
tgVars == <<tgPc, tgConfig, tgEnabled, tgLog, tgStage, tgConnect, tgTls, tgPosts,
            tgBody, tgPending, tgResponseData, tgResolved, tgValue, tgResult>>
vars == <<sysVars, sumVars, msgVars, tgVars>>
\* what an action of the notification system process leaves alone
notSys == <<sumVars, msgVars, tgVars>>
\* what a call of generateMessage leaves alone
notSum == <<sysVars, msgVars, tgVars>>
\* what the shaping of a Telegram message leaves alone
notMsg == <<sysVars, sumVars, tgVars>>
\* what the delivery of a Telegram message leaves alone
notTg == <<sysVars, sumVars, msgVars>>

-----------------------------------------------------------------------------
(* JavaScript values the model needs *)

\* A name (an event name, a notification type) is a TLA+ string; a text (a message,
\* a summary, a file's text) is a sequence of characters, each character a
\* one-symbol string ("U5DF2" is the character U+5DF2). The values undefined and
\* null of each kind are symbols of their own.
Undefined == "<undefined>"
Null == "<null>"
UndefinedText == <<"<undefined>">>
NullText == <<"<null>">>

\* ToBoolean of a name and of a text: undefined, null and the empty string are falsy
Truthy(v) == v \notin {Undefined, Null, ""}
TruthyText(t) == t \notin {UndefinedText, NullText, <<>>}

Min(a, b) == IF a < b THEN a ELSE b
Max(a, b) == IF a > b THEN a ELSE b

-----------------------------------------------------------------------------
(* Event tables of the sound module *)

EVENT_BEEP_MAP ==
    [e \in {"Stop", "permission_prompt", "idle_prompt", "elicitation_dialog",
            "SubagentStop", "default"} |->
        CASE e = "Stop" -> 600
          [] e = "permission_prompt" -> 1000
          [] e = "idle_prompt" -> 800
          [] e = "elicitation_dialog" -> 900
          [] e = "SubagentStop" -> 700
          [] OTHER -> 800]

BeepLookup(key) ==
    IF key \in DOMAIN EVENT_BEEP_MAP THEN EVENT_BEEP_MAP[key] ELSE EVENT_BEEP_MAP["default"]

getBeepFrequency(eventType, notificationType) ==
    IF eventType = "Notification" /\ Truthy(notificationType)
    THEN BeepLookup(notificationType)
    ELSE BeepLookup(eventType)

-----------------------------------------------------------------------------
(* String operations of JavaScript on texts *)

WhiteSpace == {" ", "\t", "\n", "\r"}

\* String.prototype.slice(0, end) for end >= 0
SliceTo(t, end) == SubSeq(t, 1, Min(end, Len(t)))

\* String.prototype.replace(/\n/g, ' ')
ReplaceNewlines(t) == [i \in 1..Len(t) |-> IF t[i] = "\n" THEN " " ELSE t[i]]

\* String.prototype.trim()
Trim(t) ==
    LET keep == {i \in 1..Len(t) : t[i] \notin WhiteSpace}
    IN  IF keep = {} THEN <<>>
        ELSE SubSeq(t, CHOOSE i \in keep : \A j \in keep : i <= j,
                       CHOOSE i \in keep : \A j \in keep : j <= i)

\* Array.prototype.join(sep) of an array of texts; an undefined or null element
\* joins as the empty string
RECURSIVE Join(_, _)
Join(texts, sep) ==
    IF texts = <<>> THEN <<>>
    ELSE LET head == IF texts[1] \in {UndefinedText, NullText} THEN <<>> ELSE texts[1]
         IN  IF Len(texts) = 1 THEN head
             ELSE head \o sep \o Join(Tail(texts), sep)

-----------------------------------------------------------------------------
(* extractTaskSummary and generateMessage (the notification system) *)

\* The number of characters of the text that a summary keeps
SummaryLength == 100
Ellipsis == <<".", ".", ".">>

\* A line of the transcript file, by what JSON.parse makes of it:
\*   json = "blank"    an empty or white line (JSON.parse throws)
\*   json = "garbage"  not JSON (JSON.parse throws)
\*   json = "null"     the JSON value null (entry.type throws a TypeError)
\*   json = "object"   an object with entry.type = type and entry.message?.content
\*                     k = "missing": undefined or falsy, k = "string": a non-empty
\*                     string (it has no filter method), k = "array": the array segs
\*                     of segments {type, text}
BlankLine == [json |-> "blank", type |-> Undefined, k |-> "missing", segs |-> <<>>]

\* content.trim().split('\n'): the white lines at both ends go; what is left of an
\* empty or white file is one empty line
SplitLines(fileLines) ==
    LET keep == {i \in 1..Len(fileLines) : fileLines[i].json # "blank"}
    IN  IF keep = {} THEN <<BlankLine>>
        ELSE SubSeq(fileLines, CHOOSE i \in keep : \A j \in keep : i <= j,
                               CHOOSE i \in keep : \A j \in keep : j <= i)

\* entry.message.content.filter(c => c.type === 'text').map(c => c.text).join('\n')
TextContent(segs) ==
    LET textSegs == SelectSeq(segs, LAMBDA c : c.type = "text")
    IN  Join([i \in 1..Len(textSegs) |-> textSegs[i].text], <<"\n">>)

\* SummaryOf without the replace and the trim
SummaryOfNoTrim(textContent) ==
    SliceTo(textContent, SummaryLength)
        \o (IF Len(textContent) > SummaryLength THEN Ellipsis ELSE <<>>)

\* textContent.slice(0, 100).replace(/\n/g, ' ').trim() + (length > 100 ? '...' : '')
SummaryOf(textContent) ==
    Trim(ReplaceNewlines(SliceTo(textContent, SummaryLength)))
        \o (IF Len(textContent) > SummaryLength THEN Ellipsis ELSE <<>>)

\* The record of line l is one the scan stops at: it parses, it is an assistant
\* record with a content array, and its joined text is not empty
LineMatches(l) ==
    /\ l.json = "object"
    /\ l.type = "assistant"
    /\ l.k = "array"
    /\ TextContent(l.segs) # <<>>

\* for (let i = lines.length - 1; i >= 0; i--): i counts from Len(lines) down to 1;
\* a line that throws (JSON.parse, entry.type of null, content.filter of a string) is
\* skipped by the inner catch
RECURSIVE ScanLines(_, _)
ScanLines(lines, i) ==
    IF i = 0 THEN NullText
    ELSE LET l == lines[i]
         IN  IF LineMatches(l) THEN SummaryOf(TextContent(l.segs))
             ELSE ScanLines(lines, i - 1)

\* What a call that throws gives in place of a result
ThrownText == <<"<thrown>">>

\* extractTaskSummary without the outer try and catch: the throw of readFileSync
\* leaves the function
extractTaskSummaryNoCatch(transcriptPath, file) ==
    IF ~Truthy(transcriptPath) \/ file.state = "missing" THEN NullText
    ELSE IF file.state = "unreadable" THEN ThrownText
    ELSE LET lines == SplitLines(file.lines)
         IN  ScanLines(lines, Len(lines))

\* file.state: "missing" (existsSync is false), "unreadable" (readFileSync throws,
\* the outer catch returns null), "ok" (file.lines is its content)
extractTaskSummary(transcriptPath, file) ==
    IF ~Truthy(transcriptPath) \/ file.state = "missing" THEN NullText
    ELSE IF file.state = "unreadable" THEN NullText
    ELSE LET lines == SplitLines(file.lines)
         IN  ScanLines(lines, Len(lines))

MsgCompletedPrefix == <<"U5DF2", "U5B8C", "U6210", ":", " ">>
MsgCompleted == <<"U4EFB", "U52A1", "U5DF2", "U5B8C", "U6210">>
MsgSubtaskPrefix == <<"U5B50", "U4EFB", "U52A1", "U5B8C", "U6210", ":", " ">>
MsgSubtaskCompleted == <<"U5B50", "U4EFB", "U52A1", "U5DF2", "U5B8C", "U6210">>

\* The hook input: isNull (readStdinJson gave null), or the fields of the object
NoHookInput ==
    [isNull |-> TRUE, hook_event_name |-> Undefined, notification_type |-> Undefined,
     message |-> UndefinedText, transcript_path |-> Undefined]

\* generateMessage with the fallback, not the completion sentence, for a 'Stop' or
\* 'SubagentStop' event without a summary
generateMessageFallbackOnNoSummary(hook, fallbackMessage, file) ==
    IF hook.isNull THEN fallbackMessage
    ELSE IF hook.hook_event_name = "Notification" /\ TruthyText(hook.message)
    THEN hook.message
    ELSE IF hook.hook_event_name \in {"Stop", "SubagentStop"}
    THEN LET summary == extractTaskSummary(hook.transcript_path, file)
         IN  IF TruthyText(summary)
             THEN (IF hook.hook_event_name = "Stop" THEN MsgCompletedPrefix
                   ELSE MsgSubtaskPrefix) \o summary
             ELSE fallbackMessage
    ELSE fallbackMessage

generateMessage(hook, fallbackMessage, file) ==
    IF hook.isNull THEN fallbackMessage
    ELSE IF hook.hook_event_name = "Notification" /\ TruthyText(hook.message)
    THEN hook.message
    ELSE IF hook.hook_event_name = "Stop"
    THEN LET summary == extractTaskSummary(hook.transcript_path, file)
         IN  IF TruthyText(summary) THEN MsgCompletedPrefix \o summary
             ELSE MsgCompleted
    ELSE IF hook.hook_event_name = "SubagentStop"
    THEN LET summary == extractTaskSummary(hook.transcript_path, file)
         IN  IF TruthyText(summary) THEN MsgSubtaskPrefix \o summary
             ELSE MsgSubtaskCompleted
    ELSE fallbackMessage

-----------------------------------------------------------------------------
(* The calls of generateMessage: inputs from bounded sets *)

\* The largest number of lines of a transcript
MaxLines == 2
\* How far around SummaryLength the lengths of the long texts go
Pad == 2

DefaultMessage ==
    <<"C", "l", "a", "u", "d", "e", " ", "C", "o", "d", "e",
      "U4EFB", "U52A1", "U5DF2", "U5B8C", "U6210">>

Fill(n) == [i \in 1..n |-> "x"]

Seg(type, text) == [type |-> type, text |-> text]
ObjectLine(type, k, segs) == [json |-> "object", type |-> type, k |-> k, segs |-> segs]
AssistantText(text) == ObjectLine("assistant", "array", <<Seg("text", text)>>)

ShortLines ==
    { BlankLine,
      [json |-> "garbage", type |-> Undefined, k |-> "missing", segs |-> <<>>],
      [json |-> "null", type |-> Undefined, k |-> "missing", segs |-> <<>>],
      ObjectLine("user", "array", <<Seg("text", <<"h", "i">>)>>),
      ObjectLine("assistant", "missing", <<>>),
      ObjectLine("assistant", "string", <<>>),
      ObjectLine("assistant", "array", <<Seg("tool_use", UndefinedText)>>),
      AssistantText(<<>>),
      ObjectLine("assistant", "array", <<Seg("text", <<>>), Seg("text", <<>>)>>),
      AssistantText(<<" ">>),
      AssistantText(<<"o", "k">>),
      ObjectLine("assistant", "array",
                 <<Seg("text", <<"a">>), Seg("tool_use", UndefinedText),
                   Seg("text", <<"b">>)>>) }

RECURSIVE SeqsUpTo(_, _)
SeqsUpTo(S, n) ==
    IF n = 0 THEN {<<>>}
    ELSE LET shorter == SeqsUpTo(S, n - 1)
         IN  shorter \cup {Append(q, x) : q \in shorter, x \in S}

EndPads == {<<>>, <<" ">>, <<"\n">>, <<"a", "\n", "b">>}
LongTexts ==
    {pre \o Fill(n) \o suf :
        pre \in EndPads, suf \in EndPads \cup {<<" ", "y">>},
        n \in {1} \cup ((SummaryLength - Pad - 1)..(SummaryLength + Pad))}

SumFiles ==
    {[state |-> st, lines |-> <<>>] : st \in {"missing", "unreadable"}}
    \cup {[state |-> "ok", lines |-> ls] : ls \in SeqsUpTo(ShortLines, MaxLines)}
    \cup {[state |-> "ok", lines |-> <<AssistantText(t)>>] : t \in LongTexts}

SumHooks ==
    {NoHookInput}
    \cup {[isNull |-> FALSE, hook_event_name |-> e, notification_type |-> Undefined,
           message |-> m, transcript_path |-> p] :
            e \in {"Stop", "SubagentStop"}, m \in {UndefinedText},
            p \in {Undefined, Null, "", "/t.jsonl"}}
    \cup {[isNull |-> FALSE, hook_event_name |-> e, notification_type |-> Undefined,
           message |-> m, transcript_path |-> "/t.jsonl"] :
            e \in {"Notification", "PreToolUse", Undefined},
            m \in {UndefinedText, <<>>, <<"h", "i">>}}

SumIdle ==
    /\ sumPc = "idle"
    /\ sumHook = NoHookInput
    /\ sumFallback = <<>>
    /\ sumFile = [state |-> "missing", lines |-> <<>>]
    /\ sumSummary = NullText
    /\ sumMessage = <<>>

SumInit ==
    /\ sumPc = "ready"
    /\ sumHook \in SumHooks
    /\ sumFallback = DefaultMessage
    /\ sumFile \in SumFiles
    /\ sumSummary = NullText
    /\ sumMessage = <<>>

\* notifier.generateMessage(fallbackMessage)
GenerateMessageCall ==
    /\ sumPc = "ready"
    /\ sumPc' = "done"
    \* the summary is extracted for the 'Stop' and 'SubagentStop' events only
    /\ sumSummary' = IF ~sumHook.isNull /\ sumHook.hook_event_name \in {"Stop", "SubagentStop"}
                     THEN extractTaskSummary(sumHook.transcript_path, sumFile)
                     ELSE NullText
    /\ sumMessage' = generateMessage(sumHook, sumFallback, sumFile)
    /\ UNCHANGED <<sumHook, sumFallback, sumFile>>
    /\ UNCHANGED notSum

-----------------------------------------------------------------------------
(* readStdinJson *)

\* JSON.parse of the texts the pipe can carry; any other text is a SyntaxError
StopEvent ==
    [isNull |-> FALSE, hook_event_name |-> "Stop", notification_type |-> Undefined,
     message |-> UndefinedText, transcript_path |-> Undefined]
StopEventWithMessage ==
    [isNull |-> FALSE, hook_event_name |-> "Stop", notification_type |-> Undefined,
     message |-> <<"a", "b">>, transcript_path |-> Undefined]
PermissionEvent ==
    [isNull |-> FALSE, hook_event_name |-> "Notification",
     notification_type |-> "permission_prompt", message |-> <<"h", "i">>,
     transcript_path |-> Undefined]

StdinPayloads ==
    { <<>>,
      <<"   ">>,
      <<"{\"hook_event_name\":\"Stop\"}">>,
      <<"{\"hook_event_name\":\"Notification\",",
        "\"notification_type\":\"permission_prompt\",\"message\":\"hi\"}">>,
      <<"{not json">>,
      <<"null">>,
      \* a line feed inside a string: the content is not JSON, its lines put
      \* together are
      <<"{\"hook_event_name\":\"Stop\",\"message\":\"a", "b\"}">> }

JsonParseStdin(data) ==
    CASE data = "{\"hook_event_name\":\"Stop\"}" -> [ok |-> TRUE, value |-> StopEvent]
      [] data = "{\"hook_event_name\":\"Notification\","
                \o "\"notification_type\":\"permission_prompt\",\"message\":\"hi\"}"
            -> [ok |-> TRUE, value |-> PermissionEvent]
      [] data = "null" -> [ok |-> TRUE, value |-> NoHookInput]
      [] data = "{\"hook_event_name\":\"Stop\",\"message\":\"ab\"}"
            -> [ok |-> TRUE, value |-> StopEventWithMessage]
      [] OTHER -> [ok |-> FALSE, value |-> NoHookInput]

\* data.trim() is the empty string
IsBlank(data) == data \in {"", "   "}

\* The value the 'close' handler resolves with
CloseValue(data) ==
    IF ~IsBlank(data)
    THEN LET parsed == JsonParseStdin(data)
         IN  IF parsed.ok THEN parsed.value ELSE NoHookInput
    ELSE NoHookInput

\* What the 'close' handler adds to the run's events: the warning of its catch
CloseLog(data) ==
    IF ~IsBlank(data) /\ ~JsonParseStdin(data).ok THEN <<<<"stdin", "warn">>>> ELSE <<>>

-----------------------------------------------------------------------------
(* The dispatch of NotificationManager.sendAllNotifications, after section 4.3 of
   the specification: every enabled adapter is invoked, each call guarded on its
   own; a throw or a rejection becomes a failed DeliveryResult with the error
   text *)

ChannelOrder == <<"feishu", "telegram">>
Channels == {ChannelOrder[i] : i \in 1..Len(ChannelOrder)}

NoResult == [state |-> "skipped", success |-> FALSE, error |-> ""]
PendingResult == [state |-> "pending", success |-> FALSE, error |-> ""]

ErrorText(what) ==
    CASE what = "throw" -> "thrown by deliver"
      [] what = "reject" -> "rejected by deliver"
      [] OTHER -> ""

\* The call of deliver with no guard around it: a throw or a rejection leaves the
\* dispatch, and no result is recorded for the adapter
DeliverUnguarded(what) ==
    IF what \in {"throw", "reject"}
    THEN [result |-> PendingResult, escapes |-> TRUE]
    ELSE [result |-> [state |-> "done", success |-> what = "true", error |-> ""],
          escapes |-> FALSE]

\* What the guard around one adapter makes of what deliver did:
\* "throw" (synchronously), "reject", "true", "false"
DeliverGuarded(what) ==
    [result |-> [state |-> "done", success |-> what = "true", error |-> ErrorText(what)],
     escapes |-> FALSE]

-----------------------------------------------------------------------------
(* The notification system process: main, sendAllNotifications, and the sound
   module's notifyTaskCompletion *)

SpawnOutcomes == {"running", "enoent", "throw"}
NoProcess == [state |-> "none", freq |-> 0, code |-> 0]

\* The hook inputs main can get are those of the payloads
SysConfigs == [sound : BOOLEAN, enabled : SUBSET Channels]

SysIdle ==
    /\ pc = "idle"
    /\ exitStatus = "running"
    /\ config = [sound |-> FALSE, enabled |-> {}]
    /\ stdinTTY = TRUE
    /\ stdinPending = <<>>
    /\ stdinWillClose = FALSE
    /\ stdinData = ""
    /\ rlState = "none"
    /\ stdinTimer = FALSE
    /\ hookResolved = FALSE
    /\ hookInput = NoHookInput
    /\ message = <<>>
    /\ outcome = [ch \in Channels |-> "none"]
    /\ results = [ch \in Channels |-> NoResult]
    /\ escaped = FALSE
    /\ soundTimer = FALSE
    /\ exitTimer = FALSE
    /\ summaryPrinted = FALSE
    /\ primary = NoProcess
    /\ beeps = <<>>
    /\ history = <<>>

SysInit ==
    /\ pc = "start"
    /\ exitStatus = "running"
    /\ config \in SysConfigs
    /\ stdinTTY \in BOOLEAN
    /\ stdinPending \in (IF stdinTTY THEN {<<>>} ELSE StdinPayloads)
    /\ stdinWillClose \in (IF stdinTTY THEN {FALSE} ELSE BOOLEAN)
    /\ stdinData = ""
    /\ rlState = "none"
    /\ stdinTimer = FALSE
    /\ hookResolved = FALSE
    /\ hookInput = NoHookInput
    /\ message = <<>>
    /\ outcome = [ch \in Channels |-> "none"]
    /\ results = [ch \in Channels |-> NoResult]
    /\ escaped = FALSE
    /\ soundTimer = FALSE
    /\ exitTimer = FALSE
    /\ summaryPrinted = FALSE
    /\ primary = NoProcess
    /\ beeps = <<>>
    /\ history = <<>>

Running == exitStatus = "running"

\* resolve(v) of the promise of readStdinJson: only the first call counts
ResolveHook(v) ==
    /\ hookResolved' = TRUE
    /\ hookInput' = IF hookResolved THEN hookInput ELSE v

stdinRest == <<notSys, pc, exitStatus, config, stdinTTY, stdinWillClose, message, outcome,
               results, escaped, soundTimer, exitTimer, summaryPrinted, primary,
               beeps>>

\* MainStart with no timer set
MainStartNoTimer ==
    /\ Running /\ pc = "start"
    /\ pc' = "readStdin"
    /\ IF stdinTTY
       THEN /\ ResolveHook(NoHookInput)
            /\ UNCHANGED <<rlState, stdinTimer>>
       ELSE /\ rlState' = "open"
            /\ stdinTimer' = FALSE
            /\ UNCHANGED <<hookResolved, hookInput>>
    /\ UNCHANGED <<notSys, exitStatus, config, stdinTTY, stdinPending, stdinWillClose,
                   stdinData, message, outcome, results, escaped, soundTimer,
                   exitTimer, summaryPrinted, primary, beeps, history>>

\* main up to its await: the executor of readStdinJson
MainStart ==
    /\ Running /\ pc = "start"
    /\ pc' = "readStdin"
    /\ IF stdinTTY
       THEN /\ ResolveHook(NoHookInput)
            /\ UNCHANGED <<rlState, stdinTimer>>
       ELSE /\ rlState' = "open"
            /\ stdinTimer' = TRUE
            /\ UNCHANGED <<hookResolved, hookInput>>
    /\ UNCHANGED <<notSys, exitStatus, config, stdinTTY, stdinPending, stdinWillClose,
                   stdinData, message, outcome, results, escaped, soundTimer,
                   exitTimer, summaryPrinted, primary, beeps, history>>

\* rl.on('line')
StdinLine ==
    /\ Running /\ rlState = "open" /\ stdinPending # <<>>
    /\ stdinData' = stdinData \o Head(stdinPending)
    /\ stdinPending' = Tail(stdinPending)
    /\ UNCHANGED history
    /\ UNCHANGED <<rlState, stdinTimer, hookResolved, hookInput>>
    /\ UNCHANGED stdinRest

\* rl.on('close'), the pipe closed by its writer
StdinClose ==
    /\ Running /\ rlState = "open" /\ stdinPending = <<>> /\ stdinWillClose
    /\ rlState' = "closed"
    /\ stdinTimer' = FALSE
    /\ ResolveHook(CloseValue(stdinData))
    /\ history' = history \o CloseLog(stdinData)
    /\ UNCHANGED <<stdinPending, stdinData>>
    /\ UNCHANGED stdinRest

\* The 1000 ms timer whose resolve(null) comes before the 'close' handler
StdinTimeoutResolvesNull ==
    /\ Running /\ stdinTimer
    /\ rlState' = "closed"
    /\ stdinTimer' = FALSE
    /\ ResolveHook(NoHookInput)
    /\ history' = history \o CloseLog(stdinData)
    /\ UNCHANGED <<stdinPending, stdinData>>
    /\ UNCHANGED stdinRest

\* the 1000 ms timer: rl.close() runs the 'close' handler, then resolve(null)
StdinTimeout ==
    /\ Running /\ stdinTimer
    /\ rlState' = "closed"
    /\ stdinTimer' = FALSE
    /\ ResolveHook(CloseValue(stdinData))
    /\ history' = history \o CloseLog(stdinData)
    /\ UNCHANGED <<stdinPending, stdinData>>
    /\ UNCHANGED stdinRest

\* rl.on('error')
StdinError ==
    /\ Running /\ rlState = "open" /\ ~hookResolved
    /\ stdinTimer' = FALSE
    /\ ResolveHook(NoHookInput)
    /\ UNCHANGED history
    /\ UNCHANGED <<rlState, stdinPending, stdinData>>
    /\ UNCHANGED stdinRest

\* The adapters in invocation order, each with what its call did at once:
\* b[ch] = "throw" (deliver threw synchronously) or "pending" (it returned a promise)
RECURSIVE InvokeAll(_, _, _)
InvokeAll(i, b, acc) ==
    IF i > Len(ChannelOrder) THEN acc
    ELSE LET ch == ChannelOrder[i]
         IN  IF ch \notin config.enabled THEN InvokeAll(i + 1, b, acc)
             ELSE IF b[ch] = "throw"
             THEN LET g == DeliverGuarded("throw")
                  IN  InvokeAll(i + 1, b,
                        [outcome |-> [acc.outcome EXCEPT ![ch] = "throw"],
                         results |-> [acc.results EXCEPT ![ch] = g.result],
                         escaped |-> acc.escaped \/ g.escapes,
                         history |-> acc.history \o <<<<"invoke", ch>>, <<"settle", ch>>>>])
             ELSE InvokeAll(i + 1, b,
                        [outcome |-> acc.outcome,
                         results |-> [acc.results EXCEPT ![ch] = PendingResult],
                         escaped |-> acc.escaped,
                         history |-> Append(acc.history, <<"invoke", ch>>)])

\* main after its await, and sendAllNotifications up to its await: new
\* NotificationSystem(hookInput), generateMessage, the dispatch is started
MainResume ==
    /\ Running /\ pc = "readStdin" /\ hookResolved
    /\ message' = generateMessage(hookInput, DefaultMessage, sumFile)
    /\ \E b \in [Channels -> {"throw", "pending"}] :
          LET r == InvokeAll(1, b, [outcome |-> outcome, results |-> results,
                                    escaped |-> escaped, history |-> history])
          IN  /\ outcome' = r.outcome
              /\ results' = r.results
              /\ escaped' = r.escaped
              /\ history' = r.history
              /\ exitStatus' = IF r.escaped THEN "uncaught" ELSE exitStatus
    /\ pc' = "dispatch"
    /\ UNCHANGED <<notSys, config, stdinTTY, stdinPending, stdinWillClose, stdinData,
                   rlState, stdinTimer, hookResolved, hookInput, soundTimer, exitTimer,
                   summaryPrinted, primary, beeps>>

\* The promise of one adapter settles: it resolves true or false, or it rejects
AdapterSettle(ch, what) ==
    /\ Running /\ pc = "dispatch" /\ results[ch].state = "pending"
    /\ LET g == DeliverGuarded(what)
       IN  /\ results' = [results EXCEPT ![ch] = g.result]
           /\ escaped' = (escaped \/ g.escapes)
           /\ exitStatus' = IF g.escapes THEN "uncaught" ELSE exitStatus
    /\ outcome' = [outcome EXCEPT ![ch] = what]
    /\ history' = Append(history, <<"settle", ch>>)
    /\ UNCHANGED <<notSys, pc, config, stdinTTY, stdinPending, stdinWillClose,
                   stdinData, rlState, stdinTimer, hookResolved, hookInput, message,
                   soundTimer, exitTimer, summaryPrinted, primary, beeps>>

\* playBeep with the default frequency, whatever was chosen for the primary
BeepDefaultFrequency(freq, how) == [state |-> how, freq |-> 800, code |-> 0]

\* playBeep(frequency): a process is spawned with no handler attached; how is
\* what spawn does: the process runs, fails to start ('error' on a later tick),
\* or spawn throws
Beep(freq, how) == [state |-> how, freq |-> freq, code |-> 0]

SoundEventType == IF hookInput.isNull \/ ~Truthy(hookInput.hook_event_name)
                  THEN "default" ELSE hookInput.hook_event_name
SoundNotificationType == IF hookInput.isNull \/ ~Truthy(hookInput.notification_type)
                         THEN Null ELSE hookInput.notification_type

\* sendAllNotifications that goes on to the sound channel with no await of the
\* dispatch
DispatchResumeNoAwait ==
    /\ Running /\ pc = "dispatch"
    /\ pc' = "waitExit"
    /\ IF config.sound
       THEN LET beepFreq == getBeepFrequency(SoundEventType, SoundNotificationType)
            IN  /\ \E how \in SpawnOutcomes, beepHow \in SpawnOutcomes :
                      /\ primary' = [state |-> how, freq |-> beepFreq, code |-> 0]
                      \* spawn threw: the catch of notifyTaskCompletion plays the beep;
                      \* a throw of that spawn too is caught by sendSoundNotification
                      /\ beeps' = IF how = "throw" THEN <<Beep(beepFreq, beepHow)>>
                                  ELSE <<>>
                /\ soundTimer' = TRUE
                /\ history' = history \o <<<<"sound", "">>, <<"summary", "">>,
                                            <<"exitTimer", "">>>>
       ELSE /\ UNCHANGED <<primary, beeps, soundTimer>>
            /\ history' = history \o <<<<"summary", "">>, <<"exitTimer", "">>>>
    /\ summaryPrinted' = TRUE
    /\ exitTimer' = TRUE
    /\ UNCHANGED <<notSys, exitStatus, config, stdinTTY, stdinPending, stdinWillClose,
                   stdinData, rlState, stdinTimer, hookResolved, hookInput, message,
                   outcome, results, escaped>>

\* sendAllNotifications after its await: the sound channel (sendSoundNotification
\* and the sound module's notifyTaskCompletion, which run to their end at once),
\* the summary, the exit timer
DispatchResume ==
    /\ Running /\ pc = "dispatch"
    /\ \A ch \in Channels : results[ch].state # "pending"
    /\ pc' = "waitExit"
    /\ IF config.sound
       THEN LET beepFreq == getBeepFrequency(SoundEventType, SoundNotificationType)
            IN  /\ \E how \in SpawnOutcomes, beepHow \in SpawnOutcomes :
                      /\ primary' = [state |-> how, freq |-> beepFreq, code |-> 0]
                      \* spawn threw: the catch of notifyTaskCompletion plays the beep;
                      \* a throw of that spawn too is caught by sendSoundNotification
                      /\ beeps' = IF how = "throw" THEN <<Beep(beepFreq, beepHow)>>
                                  ELSE <<>>
                /\ soundTimer' = TRUE
                /\ history' = history \o <<<<"sound", "">>, <<"summary", "">>,
                                            <<"exitTimer", "">>>>
       ELSE /\ UNCHANGED <<primary, beeps, soundTimer>>
            /\ history' = history \o <<<<"summary", "">>, <<"exitTimer", "">>>>
    /\ summaryPrinted' = TRUE
    /\ exitTimer' = TRUE
    /\ UNCHANGED <<notSys, exitStatus, config, stdinTTY, stdinPending, stdinWillClose,
                   stdinData, rlState, stdinTimer, hookResolved, hookInput, message,
                   outcome, results, escaped>>

soundRest == <<notSys, pc, config, stdinTTY, stdinPending, stdinWillClose, stdinData, rlState,
               stdinTimer, hookResolved, hookInput, message, outcome, results,
               escaped, soundTimer, exitTimer, summaryPrinted>>

\* The primary audio process failed to start: 'error' is emitted, its handler
\* plays the beep; then 'close' is emitted with a negative code, and its handler
\* plays the beep. A spawn that throws inside a handler is an uncaught exception.
PrimarySpawnFailed ==
    /\ Running /\ primary.state = "enoent"
    /\ \E how1 \in SpawnOutcomes, how2 \in SpawnOutcomes :
          IF how1 = "throw"
          THEN /\ beeps' = Append(beeps, Beep(primary.freq, how1))
               /\ primary' = [primary EXCEPT !.state = "errored"]
               /\ exitStatus' = "uncaught"
               /\ history' = Append(history, <<"beep", "error">>)
          ELSE /\ beeps' = beeps \o <<Beep(primary.freq, how1), Beep(primary.freq, how2)>>
               /\ primary' = [primary EXCEPT !.state = "closed", !.code = -2]
               /\ exitStatus' = IF how2 = "throw" THEN "uncaught" ELSE exitStatus
               /\ history' = history \o <<<<"beep", "error">>, <<"beep", "close">>>>
    /\ UNCHANGED soundRest

\* soundProcess.on('close') of a primary audio process that ran
PrimaryExit(code) ==
    /\ Running /\ primary.state = "running"
    /\ primary' = [primary EXCEPT !.state = "closed", !.code = code]
    /\ IF code # 0
       THEN \E how \in SpawnOutcomes :
              /\ beeps' = Append(beeps, Beep(primary.freq, how))
              /\ exitStatus' = IF how = "throw" THEN "uncaught" ELSE exitStatus
              /\ history' = Append(history, <<"beep", "close">>)
       ELSE UNCHANGED <<beeps, exitStatus, history>>
    /\ UNCHANGED soundRest

\* A beep process failed to start: its 'error' event has no listener, which is an
\* uncaught exception
BeepError(i) ==
    /\ Running /\ i \in DOMAIN beeps /\ beeps[i].state = "enoent"
    /\ beeps' = [beeps EXCEPT ![i].state = "errored"]
    /\ exitStatus' = "uncaught"
    /\ UNCHANGED <<primary, history>>
    /\ UNCHANGED soundRest

\* A beep process that ran has exited: nothing listens
BeepExit(i) ==
    /\ Running /\ i \in DOMAIN beeps /\ beeps[i].state = "running"
    /\ beeps' = [beeps EXCEPT ![i].state = "closed"]
    /\ UNCHANGED <<exitStatus, primary, history>>
    /\ UNCHANGED soundRest

timerRest == <<notSys, pc, config, stdinTTY, stdinPending, stdinWillClose, stdinData, rlState,
               stdinTimer, hookResolved, hookInput, message, outcome, results,
               escaped, summaryPrinted, primary, beeps>>

\* setTimeout(..., 1000) of the sound channel
SoundLogTimer ==
    /\ Running /\ soundTimer
    /\ soundTimer' = FALSE
    /\ history' = Append(history, <<"soundLog", "">>)
    /\ UNCHANGED <<exitStatus, exitTimer>>
    /\ UNCHANGED timerRest

\* setTimeout(..., 3000): process.exit(0). It was set in the same tick as the
\* 1000 ms timer, which fires first.
ExitTimerFire ==
    /\ Running /\ exitTimer /\ ~soundTimer
    /\ exitTimer' = FALSE
    /\ exitStatus' = "exit0"
    /\ history' = Append(history, <<"exit", "">>)
    /\ UNCHANGED soundTimer
    /\ UNCHANGED timerRest

SysNext ==
    \/ MainStart
    \/ StdinLine
    \/ StdinClose
    \/ StdinTimeout
    \/ StdinError
    \/ MainResume
    \/ \E ch \in Channels, what \in {"true", "false", "reject"} : AdapterSettle(ch, what)
    \/ DispatchResume
    \/ PrimarySpawnFailed
    \/ \E code \in {0, 1} : PrimaryExit(code)
    \/ \E i \in 1..3 : BeepError(i)
    \/ \E i \in 1..3 : BeepExit(i)
    \/ SoundLogTimer
    \/ ExitTimerFire

-----------------------------------------------------------------------------
(* The Telegram channel: texts. A text of this part is a sequence of runs
   [s |-> characters, n |-> count], the characters s repeated n times, so that a
   text of thousands of characters stays small. *)

Lit(chars) == <<[s |-> chars, n |-> 1]>>
Rep(chars, n) == <<[s |-> chars, n |-> n]>>

\* String.prototype.length
RECURSIVE TextLen(_)
TextLen(t) == IF t = <<>> THEN 0 ELSE Len(t[1].s) * t[1].n + TextLen(Tail(t))

\* The characters of a text, one by one
RECURSIVE Expand(_)
Expand(t) ==
    IF t = <<>> THEN <<>>
    ELSE LET u == t[1].s
         IN  [i \in 1..(Len(u) * t[1].n) |-> u[((i - 1) % Len(u)) + 1]] \o Expand(Tail(t))

\* The first k characters of a text, 0 <= k
RECURSIVE TextHead(_, _)
TextHead(t, k) ==
    IF t = <<>> \/ k <= 0 THEN <<>>
    ELSE LET u == t[1].s
             len == Len(u) * t[1].n
         IN  IF len <= k THEN <<t[1]>> \o TextHead(Tail(t), k - len)
             ELSE (IF k \div Len(u) > 0 THEN Rep(u, k \div Len(u)) ELSE <<>>)
                  \o (IF k % Len(u) > 0 THEN Lit(SubSeq(u, 1, k % Len(u))) ELSE <<>>)

\* String.prototype.slice(0, end): a negative end counts from the end of the text
TextSliceTo(t, end) ==
    IF end < 0 THEN TextHead(t, Max(TextLen(t) + end, 0))
    ELSE TextHead(t, Min(end, TextLen(t)))

\* String.prototype.replace(/c/g, rep) on characters
RECURSIVE ReplaceAll(_, _, _)
ReplaceAll(chars, c, rep) ==
    IF chars = <<>> THEN <<>>
    ELSE (IF Head(chars) = c THEN rep ELSE <<Head(chars)>>) \o ReplaceAll(Tail(chars), c, rep)

\* The five replacements with the one of & made last
EscapeCharsAmpLast(chars) ==
    ReplaceAll(ReplaceAll(ReplaceAll(ReplaceAll(ReplaceAll(chars,
        "<", <<"&", "l", "t", ";">>),
        ">", <<"&", "g", "t", ";">>),
        "\"", <<"&", "q", "u", "o", "t", ";">>),
        "'", <<"&", "#", "0", "3", "9", ";">>),
        "&", <<"&", "a", "m", "p", ";">>)

EscapeChars(chars) ==
    ReplaceAll(ReplaceAll(ReplaceAll(ReplaceAll(ReplaceAll(chars,
        "&", <<"&", "a", "m", "p", ";">>),
        "<", <<"&", "l", "t", ";">>),
        ">", <<"&", "g", "t", ";">>),
        "\"", <<"&", "q", "u", "o", "t", ";">>),
        "'", <<"&", "#", "0", "3", "9", ";">>)

\* escapeHtml: each of the five patterns is one character and no replacement
\* holds a later pattern, so the text is escaped run by run
escapeHtml(text) == [i \in 1..Len(text) |-> [s |-> EscapeChars(text[i].s), n |-> text[i].n]]

UpperCase == <<"A", "B", "C", "D", "E", "F", "G", "H", "I", "J", "K", "L", "M",
               "N", "O", "P", "Q", "R", "S", "T", "U", "V", "W", "X", "Y", "Z">>
LowerCase == <<"a", "b", "c", "d", "e", "f", "g", "h", "i", "j", "k", "l", "m",
               "n", "o", "p", "q", "r", "s", "t", "u", "v", "w", "x", "y", "z">>
LowerOf == [c \in {UpperCase[i] : i \in 1..26} |->
              LowerCase[CHOOSE i \in 1..26 : UpperCase[i] = c]]

\* String.prototype.toLowerCase, as characters
toLowerCase(t) ==
    Expand([i \in 1..Len(t) |->
              [s |-> [j \in 1..Len(t[i].s) |->
                        IF t[i].s[j] \in DOMAIN LowerOf THEN LowerOf[t[i].s[j]]
                        ELSE t[i].s[j]],
               n |-> t[i].n]])

\* String.prototype.includes on characters
Includes(chars, word) ==
    \E i \in 1..(Len(chars) - Len(word) + 1) : SubSeq(chars, i, i + Len(word) - 1) = word

Digits == {"0", "1", "2", "3", "4", "5", "6", "7", "8", "9"}

\* /http\s*5\d{2}/.test(chars)
MatchesHttp5xx(chars) ==
    \E i \in 1..(Len(chars) - 6) :
        /\ SubSeq(chars, i, i + 3) = <<"h", "t", "t", "p">>
        /\ \E j \in (i + 4)..(Len(chars) - 2) :
              /\ \A k \in (i + 4)..(j - 1) : chars[k] \in WhiteSpace
              /\ chars[j] = "5"
              /\ chars[j + 1] \in Digits
              /\ chars[j + 2] \in Digits

StatusWaiting == <<"U7B49", "U5F85", "U8F93", "U5165">>
StatusFailed == <<"U5931", "U8D25">>
StatusCompleted == <<"U5B8C", "U6210">>

WaitingWords ==
    { <<"p", "e", "r", "m", "i", "s", "s", "i", "o", "n">>, <<"U6743", "U9650">>,
      <<"i", "d", "l", "e">>, <<"U7B49", "U5F85">>,
      <<"e", "l", "i", "c", "i", "t", "a", "t", "i", "o", "n">>,
      <<"U8BF7", "U8F93", "U5165">> }
FailureWords ==
    { <<"e", "r", "r", "o", "r">>, <<"U5931", "U8D25">>,
      <<"e", "x", "c", "e", "p", "t", "i", "o", "n">>, <<"5", "0", "2">>,
      <<"b", "a", "d", " ", "g", "a", "t", "e", "w", "a", "y">> }

\* The length of the longest keyword
LongestWord ==
    CHOOSE n \in {Len(w) : w \in WaitingWords \cup FailureWords} :
        \A w \in WaitingWords \cup FailureWords : Len(w) <= n

\* The text with every run cut to 2 * LongestWord repetitions. The same words
\* occur in it: an occurrence that reaches into a run holds at most LongestWord
\* of the run's characters, from its start, from its end or from its inside, and
\* the cut run has them all; a stretch of white space stays a stretch of white
\* space
Shorten(t) == [i \in 1..Len(t) |-> [s |-> t[i].s, n |-> Min(t[i].n, 2 * LongestWord)]]

\* inferStatusFromText with the failure keywords looked for first
inferStatusFailureFirst(taskInfo) ==
    LET text == toLowerCase(Shorten(taskInfo))
    IN  IF (\E w \in FailureWords : Includes(text, w)) \/ MatchesHttp5xx(text)
        THEN StatusFailed
        ELSE IF \E w \in WaitingWords : Includes(text, w) THEN StatusWaiting
        ELSE StatusCompleted

\* inferStatusFromText: the keywords are looked for in the shortened text, where
\* they occur exactly when they occur in taskInfo
inferStatusFromText(taskInfo) ==
    LET text == toLowerCase(Shorten(taskInfo))
    IN  IF \E w \in WaitingWords : Includes(text, w) THEN StatusWaiting
        ELSE IF (\E w \in FailureWords : Includes(text, w)) \/ MatchesHttp5xx(text)
        THEN StatusFailed
        ELSE StatusCompleted

\* String(n).padStart(2, '0')
Digit(d) == CHOOSE c \in Digits : c = <<"0", "1", "2", "3", "4", "5", "6", "7", "8", "9">>[d + 1]
PadStart2(n) == IF n < 10 THEN <<"0", Digit(n)>>
                ELSE IF n < 100 THEN <<Digit(n \div 10), Digit(n % 10)>>
                ELSE <<Digit(n \div 100), Digit((n \div 10) % 10), Digit(n % 10)>>

\* formatTime(date): date.month is getMonth(), from 0
formatTime(date) ==
    PadStart2(date.month + 1) \o <<"-">> \o PadStart2(date.day) \o <<" ">>
        \o PadStart2(date.hours) \o <<":">> \o PadStart2(date.minutes)

-----------------------------------------------------------------------------
(* The Telegram channel: the message of notifyTaskCompletion *)

\* The platform's limit on the length of a message, and the margin kept
TelegramLimit == 4096
SafetyMargin == 10

\* title: `【${status}】${projectName}` or `【${status}】任务通知`
Title(status, projectName) ==
    IF TextLen(projectName) > 0
    THEN Lit(<<"U3010">> \o status \o <<"U3011">>) \o projectName
    ELSE Lit(<<"U3010">> \o status \o <<"U3011">> \o <<"U4EFB", "U52A1", "U901A", "U77E5">>)

\* headerPrefix: `<b>${escapeHtml(title)}</b>\n■ 时间：${formattedTime}\n`
HeaderPrefix(status, projectName, date) ==
    Lit(<<"<", "b", ">">>) \o escapeHtml(Title(status, projectName))
        \o Lit(<<"<", "/", "b", ">", "\n", "U25A0", " ", "U65F6", "U95F4", "UFF1A">>
               \o formatTime(date) \o <<"\n">>)

HeaderSuffix(status) ==
    IF status = StatusFailed THEN <<>>
    ELSE IF status = StatusWaiting
    THEN Lit(<<"U25A0", " ", "U539F", "U56E0", "UFF1A", "U9700", "U8981", "U4F60",
               "U7684", "U8F93", "U5165", "\n">>)
    ELSE Lit(<<"U25A0", " ", "U72B6", "U6001", "UFF1A", "U4EFB", "U52A1", "U5DF2",
               "U5B8C", "U6210", "\n">>)

FieldLabel(status) ==
    IF status = StatusFailed
    THEN Lit(<<"<", "b", ">", "U9519", "U8BEF", "<", "/", "b", ">", "UFF1A">>)
    ELSE Lit(<<"U25A0", " ", "U8BE6", "U60C5", "UFF1A">>)

\* headerPrefix + headerSuffix + fieldLabel, of length fixedLength
FixedHeader(status, projectName, date) ==
    HeaderPrefix(status, projectName, date) \o HeaderSuffix(status) \o FieldLabel(status)

\* maxContentLength = 4096 - fixedLength - 10
MaxContentLength(fixedLength) == TelegramLimit - fixedLength - SafetyMargin

\* contentText: taskInfo, cut to maxContentLength characters and '...' appended
\* when it is longer
ContentText(taskInfo, maxContentLength) ==
    IF TextLen(taskInfo) > maxContentLength
    THEN TextSliceTo(taskInfo, maxContentLength) \o Lit(Ellipsis)
    ELSE taskInfo

-----------------------------------------------------------------------------
(* One call of notifyTaskCompletion (Telegram) with an enabled notifier, up to
   the message it hands to sendMessage *)

\* How far around the truncation limit the task texts reach
MsgPad == 2

MsgDates == { [month |-> 0, day |-> 5, hours |-> 9, minutes |-> 3],
              [month |-> 11, day |-> 31, hours |-> 23, minutes |-> 59] }

\* Project names: none, plain, with characters to escape, longer than a message
MsgProjects == { <<>>, Lit(<<"c", "c", "d", "d">>), Lit(<<"a", "&", "b">>),
                 Rep(<<"p">>, TelegramLimit) }

\* How task texts begin: nothing, a completion, a failure, a waiting state,
\* a gateway error
MsgPrefixes ==
    { <<>>, <<"d", "o", "n", "e", " ">>, <<"E", "r", "r", "o", "r", " ">>,
      <<"I", "d", "l", "e", " ">>, <<"H", "T", "T", "P", " ", "5", "0", "3", " ">>,
      \* 'permission denied, please confirm'
      <<"p", "e", "r", "m", "i", "s", "s", "i", "o", "n", " ", "d", "e", "n", "i", "e", "d",
        ",", " ", "p", "l", "e", "a", "s", "e", " ", "c", "o", "n", "f", "i", "r", "m">>,
      \* 'Error: HTTP 502 Bad Gateway'
      <<"E", "r", "r", "o", "r", ":", " ", "H", "T", "T", "P", " ", "5", "0", "2", " ",
        "B", "a", "d", " ", "G", "a", "t", "e", "w", "a", "y">>,
      \* 'build succeeded'
      <<"b", "u", "i", "l", "d", " ", "s", "u", "c", "c", "e", "e", "d", "e", "d">>,
      \* a failure word, then a waiting word
      <<"e", "r", "r", "o", "r", ":", " ", "U6743", "U9650">>,
      <<"E", "x", "c", "e", "p", "t", "i", "o", "n", " ", "U7B49", "U5F85">>,
      \* a waiting word, then a failure word
      <<"U8BF7", "U8F93", "U5165", " ", "5", "0", "2">>,
      <<"E", "L", "I", "C", "I", "T", "A", "T", "I", "O", "N">>,
      <<"H", "T", "T", "P", " ", "4", "0", "4">>,
      <<"h", "t", "t", "p", "5", "0", "0">>,
      <<"U4EFB", "U52A1", "U5931", "U8D25">>,
      <<"b", "r", "i", "d", "l", "e">>,
      <<"<", "s", "c", "r", "i", "p", "t", ">">>,
      \* text that is escaped already: '&lt;b&gt;'
      <<"&", "l", "t", ";", "b", "&", "g", "t", ";">> }

\* What task texts are filled with
MsgFillers == { <<"x">>, <<"&">>, <<"<">>, <<">">>, <<"\"">>, <<"'">>, <<"a", "&">>,
                <<"&", "l", "t", ";">> }

\* prefix, then filler up to a length of total characters
TaskText(prefix, filler, total) ==
    LET rest == Max(total - Len(prefix), 0)
    IN  (IF prefix = <<>> THEN <<>> ELSE Lit(prefix))
        \o (IF rest \div Len(filler) > 0 THEN Rep(filler, rest \div Len(filler)) ELSE <<>>)
        \o (IF rest % Len(filler) > 0 THEN Lit(SubSeq(filler, 1, rest % Len(filler))) ELSE <<>>)

\* The lengths tried for a task text that begins with prefix and goes with
\* project: short ones, and the ones around the limit its header leaves
TaskLengths(prefix, project, date) ==
    LET limit == MaxContentLength(TextLen(FixedHeader(inferStatusFromText(Lit(prefix)),
                                                      project, date)))
    IN  (0..MsgPad) \cup {n \in (limit - MsgPad)..(limit + MsgPad) : n >= 0}

MsgIdle ==
    /\ msgPc = "idle"
    /\ msgTask = <<>>
    /\ msgProject = <<>>
    /\ msgDate = [month |-> 0, day |-> 1, hours |-> 0, minutes |-> 0]
    /\ msgStatus = <<>>
    /\ msgFixedLength = 0
    /\ msgContent = <<>>
    /\ msgEscaped = <<>>
    /\ msgMessage = <<>>

MsgInit ==
    /\ msgPc = "call"
    /\ msgDate \in MsgDates
    /\ msgProject \in MsgProjects
    /\ \E prefix \in MsgPrefixes, filler \in MsgFillers :
          \E total \in TaskLengths(prefix, msgProject, msgDate) :
              msgTask = TaskText(prefix, filler, total)
    /\ msgStatus = <<>>
    /\ msgFixedLength = 0
    /\ msgContent = <<>>
    /\ msgEscaped = <<>>
    /\ msgMessage = <<>>

\* notifyTaskCompletion that escapes the task text first and cuts it afterwards
NotifyTaskCompletionMessageEscapedFirst ==
    /\ msgPc = "call"
    /\ LET status == inferStatusFromText(msgTask)
           header == FixedHeader(status, msgProject, msgDate)
           fixedLength == TextLen(header)
           contentText == ContentText(msgTask, MaxContentLength(fixedLength))
           escapedContent == ContentText(escapeHtml(msgTask), MaxContentLength(fixedLength))
       IN  /\ msgStatus' = status
           /\ msgFixedLength' = fixedLength
           /\ msgContent' = contentText
           /\ msgEscaped' = escapedContent
           /\ msgMessage' = header \o escapedContent
    /\ msgPc' = "done"
    /\ UNCHANGED <<msgTask, msgProject, msgDate>>
    /\ UNCHANGED notMsg

\* notifyTaskCompletion, from the inferred status to the assembled message
NotifyTaskCompletionMessage ==
    /\ msgPc = "call"
    /\ LET status == inferStatusFromText(msgTask)
           header == FixedHeader(status, msgProject, msgDate)
           fixedLength == TextLen(header)
           contentText == ContentText(msgTask, MaxContentLength(fixedLength))
       IN  /\ msgStatus' = status
           /\ msgFixedLength' = fixedLength
           /\ msgContent' = contentText
           /\ msgEscaped' = escapeHtml(contentText)
           /\ msgMessage' = header \o escapeHtml(contentText)
    /\ msgPc' = "done"
    /\ UNCHANGED <<msgTask, msgProject, msgDate>>
    /\ UNCHANGED notMsg

-----------------------------------------------------------------------------
(* The Telegram channel: the response of the API *)

\* The values a field of a parsed response can hold
JsBoolean(b) == [t |-> "boolean", b |-> b, n |-> 0, s |-> ""]
JsNumber(n) == [t |-> "number", b |-> FALSE, n |-> n, s |-> ""]
JsString(s) == [t |-> "string", b |-> FALSE, n |-> 0, s |-> s]
JsUndefined == [t |-> "undefined", b |-> FALSE, n |-> 0, s |-> ""]
JsNull == [t |-> "null", b |-> FALSE, n |-> 0, s |-> ""]

\* The truthiness of a value, as `if (result.ok)` takes it
ToBoolean(v) ==
    CASE v.t = "boolean" -> v.b
      [] v.t = "number" -> v.n # 0
      [] v.t = "string" -> v.s # ""
      [] OTHER -> FALSE

\* What a response body can arrive as: the chunks, in order
ResponseBodies ==
    { <<"{\"ok\":true,\"result\":{\"message_id\":7}}">>,
      <<"{\"ok\":true,", "\"result\":{\"message_id\":7}}">>,
      <<"{\"ok\":true}">>,
      <<"{\"ok\":true}", "<html>">>,
      <<"{\"ok\":\"yes\"}">>,
      <<"{\"ok\":1}">>,
      <<"{\"ok\":false,\"error_code\":401,", "\"description\":\"Unauthorized\"}">>,
      <<"{\"ok\":0}">>,
      <<"{\"ok\":\"\"}">>,
      <<"{\"ok\":null}">>,
      <<"{\"result\":{}}">>,
      <<"null">>,
      <<"7">>,
      <<"<html>", "502 Bad Gateway</html>">>,
      <<>> }

NotJson == [parsed |-> FALSE, value |-> "", ok |-> JsUndefined]
JsonObject(ok) == [parsed |-> TRUE, value |-> "object", ok |-> ok]

\* JSON.parse of the texts the bodies and their beginnings make
JsonParseBody(text) ==
    CASE text = "{\"ok\":true,\"result\":{\"message_id\":7}}" -> JsonObject(JsBoolean(TRUE))
      [] text = "{\"ok\":true}" -> JsonObject(JsBoolean(TRUE))
      [] text = "{\"ok\":\"yes\"}" -> JsonObject(JsString("yes"))
      [] text = "{\"ok\":1}" -> JsonObject(JsNumber(1))
      [] text = "{\"ok\":false,\"error_code\":401,\"description\":\"Unauthorized\"}" ->
             JsonObject(JsBoolean(FALSE))
      [] text = "{\"ok\":0}" -> JsonObject(JsNumber(0))
      [] text = "{\"ok\":\"\"}" -> JsonObject(JsString(""))
      [] text = "{\"ok\":null}" -> JsonObject(JsNull)
      [] text = "{\"result\":{}}" -> JsonObject(JsUndefined)
      [] text = "null" -> [parsed |-> TRUE, value |-> "null", ok |-> JsUndefined]
      [] text = "7" -> [parsed |-> TRUE, value |-> "number", ok |-> JsUndefined]
      [] OTHER -> NotJson

\* The 'end' handler with the test of result.ok left out
HandleEndAnyJson(responseData) ==
    LET result == JsonParseBody(responseData)
    IN  IF ~result.parsed \/ result.value = "null"
        THEN [value |-> FALSE, log |-> "parseFailed"]
        ELSE [value |-> TRUE, log |-> "sent"]

\* The 'end' handler of _handleResponse: what it resolves the promise with and
\* what it logs. JSON.parse throws on a text that is not JSON and result.ok
\* throws on null; the catch resolves false
HandleEnd(responseData) ==
    LET result == JsonParseBody(responseData)
    IN  IF ~result.parsed \/ result.value = "null"
        THEN [value |-> FALSE, log |-> "parseFailed"]
        ELSE IF ToBoolean(result.ok)
        THEN [value |-> TRUE, log |-> "sent"]
        ELSE [value |-> FALSE, log |-> "apiFailed"]

-----------------------------------------------------------------------------
(* The Telegram channel: one call of notifyTaskCompletion, from the notifier's
   construction to the value returned *)

ApiHost == "api.telegram.org"
ProxyHost == "proxy.local"

\* config.json: the flag set, the flag unset, no file, a file that is not JSON
ConfigFlags == {"on", "off", "nofile", "badfile"}
\* proxy_url: unset, an http proxy, an https proxy, a text that is not a URL
ProxyUrls == {"none", "http", "https", "invalid"}
TgConfigs == [flag : ConfigFlags, botToken : BOOLEAN, chatId : BOOLEAN, proxy : ProxyUrls]

\* The statuses a proxy answers CONNECT with
ConnectStatuses == {200, 201, 403, 407, 502}

NoConnect == [sent |-> 0, to |-> "", target |-> "", answered |-> FALSE, status |-> 0]
NoTls == [socket |-> "none", servername |-> ""]

TgIdle ==
    /\ tgPc = "idle"
    /\ tgConfig = [flag |-> "off", botToken |-> FALSE, chatId |-> FALSE, proxy |-> "none"]
    /\ tgEnabled = FALSE
    /\ tgLog = <<>>
    /\ tgStage = "none"
    /\ tgConnect = NoConnect
    /\ tgTls = NoTls
    /\ tgPosts = 0
    /\ tgBody = <<>>
    /\ tgPending = <<>>
    /\ tgResponseData = ""
    /\ tgResolved = FALSE
    /\ tgValue = FALSE
    /\ tgResult = "none"

TgInit ==
    /\ tgPc = "call"
    /\ tgConfig \in TgConfigs
    /\ tgEnabled = FALSE
    /\ tgLog = <<>>
    /\ tgStage = "none"
    /\ tgConnect = NoConnect
    /\ tgTls = NoTls
    /\ tgPosts = 0
    /\ tgBody = <<>>
    /\ tgPending = <<>>
    /\ tgResponseData = ""
    /\ tgResolved = FALSE
    /\ tgValue = FALSE
    /\ tgResult = "none"

\* _loadConfig
LoadConfig(cfg) == cfg.flag = "on"

\* The constructor with no test of the token and the chat id
ConstructorEnabledUnchecked(cfg) == LoadConfig(cfg)

\* The constructor: this.enabled, once the token and the chat id are looked at
ConstructorEnabled(cfg) == LoadConfig(cfg) /\ cfg.botToken /\ cfg.chatId

\* resolve(value): a promise settles once
Resolve(value) ==
    /\ tgResolved' = TRUE
    /\ tgValue' = IF tgResolved THEN tgValue ELSE value

\* notifyTaskCompletion up to its await: the constructor, the test of
\* notifier.enabled, sendMessage, _sendPayload and the start of the branch
TgNotifyTaskCompletion ==
    /\ tgPc = "call"
    /\ LET loaded == LoadConfig(tgConfig)
           complete == tgConfig.botToken /\ tgConfig.chatId
           enabled == ConstructorEnabled(tgConfig)
           built == (IF tgConfig.flag = "badfile" THEN <<"readFailed">> ELSE <<>>)
                    \o (IF ~loaded THEN <<"notEnabled">>
                        ELSE IF ~complete THEN <<"incomplete">>
                        ELSE <<"enabled">>)
       IN  /\ tgEnabled' = enabled
           /\ IF ~enabled
              THEN /\ tgLog' = built \o <<"guide">>
                   /\ tgResult' = "false"
                   /\ tgPc' = "done"
                   /\ UNCHANGED <<tgStage, tgConnect, tgTls, tgPosts>>
              ELSE /\ tgLog' = built
                   /\ tgResult' = "none"
                   /\ tgPc' = "sending"
                   /\ CASE tgConfig.proxy = "none" ->
                             \* _sendDirect
                             /\ tgStage' = "request"
                             /\ tgTls' = [socket |-> "direct", servername |-> ApiHost]
                             /\ tgPosts' = tgPosts + 1
                             /\ UNCHANGED tgConnect
                        [] tgConfig.proxy = "invalid" ->
                             \* new URL(this.proxyUrl) throws in the executor
                             /\ tgStage' = "thrown"
                             /\ UNCHANGED <<tgConnect, tgTls, tgPosts>>
                        [] OTHER ->
                             \* _sendViaProxy: connectReq.end()
                             /\ tgStage' = "connect"
                             /\ tgConnect' = [sent |-> tgConnect.sent + 1, to |-> ProxyHost,
                                              target |-> ApiHost, answered |-> FALSE,
                                              status |-> 0]
                             /\ UNCHANGED <<tgTls, tgPosts>>
    /\ UNCHANGED <<tgConfig, tgBody, tgPending, tgResponseData, tgResolved, tgValue>>
    /\ UNCHANGED notTg

\* connectReq.on('error') that falls back to the direct branch
ConnectErrorDirectFallback ==
    /\ tgStage = "connect"
    /\ tgStage' = "request"
    /\ tgLog' = Append(tgLog, "connectFailed")
    /\ tgTls' = [socket |-> "direct", servername |-> ApiHost]
    /\ tgPosts' = tgPosts + 1
    /\ UNCHANGED <<tgPc, tgConfig, tgEnabled, tgConnect, tgBody, tgPending,
                   tgResponseData, tgResolved, tgValue, tgResult>>
    /\ UNCHANGED notTg

\* connectReq.on('error')
ConnectError ==
    /\ tgStage = "connect"
    /\ tgStage' = "failed"
    /\ tgLog' = Append(tgLog, "connectFailed")
    /\ Resolve(FALSE)
    /\ UNCHANGED <<tgPc, tgConfig, tgEnabled, tgConnect, tgTls, tgPosts, tgBody, tgPending,
                   tgResponseData, tgResult>>
    /\ UNCHANGED notTg

\* res.statusCode === 200, for any successful status
TunnelEstablishedAny2xx(statusCode) == statusCode \in 200..299

\* res.statusCode === 200
TunnelEstablished(statusCode) == statusCode = 200

\* connectReq.on('connect')
ConnectResponse(statusCode) ==
    /\ tgStage = "connect"
    /\ tgConnect' = [tgConnect EXCEPT !.answered = TRUE, !.status = statusCode]
    /\ IF TunnelEstablished(statusCode)
       THEN /\ tgTls' = [socket |-> "tunnel", servername |-> ApiHost]
            /\ tgPosts' = tgPosts + 1
            /\ tgStage' = "request"
            /\ UNCHANGED <<tgLog, tgResolved, tgValue>>
       ELSE /\ tgLog' = Append(tgLog, "proxyFailed")
            /\ Resolve(FALSE)
            /\ tgStage' = "failed"
            /\ UNCHANGED <<tgTls, tgPosts>>
    /\ UNCHANGED <<tgPc, tgConfig, tgEnabled, tgBody, tgPending, tgResponseData, tgResult>>
    /\ UNCHANGED notTg

\* req.on('error'), httpsReq.on('error'): before any response
RequestError ==
    /\ tgStage = "request"
    /\ tgStage' = "failed"
    /\ tgLog' = Append(tgLog, "requestFailed")
    /\ Resolve(FALSE)
    /\ UNCHANGED <<tgPc, tgConfig, tgEnabled, tgConnect, tgTls, tgPosts, tgBody, tgPending,
                   tgResponseData, tgResult>>
    /\ UNCHANGED notTg

\* The response callback: _handleResponse attaches its handlers
ResponseStart(body) ==
    /\ tgStage = "request"
    /\ tgStage' = "body"
    /\ tgBody' = body
    /\ tgPending' = body
    /\ tgResponseData' = ""
    /\ UNCHANGED <<tgPc, tgConfig, tgEnabled, tgLog, tgConnect, tgTls, tgPosts, tgResolved,
                   tgValue, tgResult>>
    /\ UNCHANGED notTg

\* res.on('data')
ResponseData ==
    /\ tgStage = "body"
    /\ tgPending # <<>>
    /\ tgResponseData' = tgResponseData \o Head(tgPending)
    /\ tgPending' = Tail(tgPending)
    /\ UNCHANGED <<tgPc, tgConfig, tgEnabled, tgLog, tgStage, tgConnect, tgTls, tgPosts,
                   tgBody, tgResolved, tgValue, tgResult>>
    /\ UNCHANGED notTg

\* res.on('end'): emitted once the whole body has been delivered
ResponseEnd ==
    /\ tgStage = "body"
    /\ tgPending = <<>>
    /\ tgStage' = "ended"
    /\ tgLog' = Append(tgLog, HandleEnd(tgResponseData).log)
    /\ Resolve(HandleEnd(tgResponseData).value)
    /\ UNCHANGED <<tgPc, tgConfig, tgEnabled, tgConnect, tgTls, tgPosts, tgBody, tgPending,
                   tgResponseData, tgResult>>
    /\ UNCHANGED notTg

\* The connection breaks while the body arrives. A socket error reaches the
\* request's 'error' handler; a connection that is only closed emits 'aborted'
\* on the response, which has no handler, and 'end' never comes
ResponseAbort(socketError) ==
    /\ tgStage = "body"
    /\ IF socketError
       THEN /\ tgStage' = "failed"
            /\ tgLog' = Append(tgLog, "requestFailed")
            /\ Resolve(FALSE)
       ELSE /\ tgStage' = "aborted"
            /\ UNCHANGED <<tgLog, tgResolved, tgValue>>
    /\ UNCHANGED <<tgPc, tgConfig, tgEnabled, tgConnect, tgTls, tgPosts, tgBody, tgPending,
                   tgResponseData, tgResult>>
    /\ UNCHANGED notTg

\* notifyTaskCompletion after its await: the value of the promise, or the catch
\* when the executor threw
TgSendSettled ==
    /\ tgPc = "sending"
    /\ tgResolved \/ tgStage = "thrown"
    /\ tgPc' = "done"
    /\ IF tgStage = "thrown"
       THEN /\ tgLog' = Append(tgLog, "sendError")
            /\ tgResult' = "false"
       ELSE /\ tgLog' = Append(tgLog, IF tgValue THEN "notified" ELSE "notifyFailed")
            /\ tgResult' = IF tgValue THEN "true" ELSE "false"
    /\ UNCHANGED <<tgConfig, tgEnabled, tgStage, tgConnect, tgTls, tgPosts, tgBody,
                   tgPending, tgResponseData, tgResolved, tgValue>>
    /\ UNCHANGED notTg

TgNext ==
    \/ TgNotifyTaskCompletion
    \/ ConnectError
    \/ \E statusCode \in ConnectStatuses : ConnectResponse(statusCode)
    \/ RequestError
    \/ \E body \in ResponseBodies : ResponseStart(body)
    \/ ResponseData
    \/ ResponseEnd
    \/ \E socketError \in BOOLEAN : ResponseAbort(socketError)
    \/ TgSendSettled

-----------------------------------------------------------------------------
(* Specifications *)

Init == SysInit /\ SumIdle /\ MsgIdle /\ TgIdle
Next == SysNext
Spec == Init /\ [][Next]_vars

\* The event loop runs every callback that is ready and fires every timer that is
\* due; what the pipe, the network and a running child process do is up to them
SysFairness ==
    /\ WF_vars(MainStart)
    /\ WF_vars(StdinTimeout)
    /\ WF_vars(MainResume)
    /\ WF_vars(DispatchResume)
    /\ WF_vars(PrimarySpawnFailed)
    /\ WF_vars(\E i \in 1..3 : BeepError(i))
    /\ WF_vars(SoundLogTimer)
    /\ WF_vars(ExitTimerFire)

FairSpec == Init /\ [][Next]_vars /\ SysFairness

InitSummary == SumInit /\ SysIdle /\ MsgIdle /\ TgIdle
NextSummary == GenerateMessageCall
SpecSummary == InitSummary /\ [][NextSummary]_vars

InitMessage == MsgInit /\ SysIdle /\ SumIdle /\ TgIdle
NextMessage == NotifyTaskCompletionMessage
SpecMessage == InitMessage /\ [][NextMessage]_vars

InitTransport == TgInit /\ SysIdle /\ SumIdle /\ MsgIdle
NextTransport == TgNext
SpecTransport == InitTransport /\ [][NextTransport]_vars

-----------------------------------------------------------------------------
(* Claims about the notification system process *)

\* C1: once sendAllNotifications has started the dispatch, the process always
\* eventually terminates, also when an adapter's delivery promise never settles.
\* (The claim says more, that it terminates through the 3 s exit timer; already
\* termination in any way fails: the exit timer is set only after the await of
\* the dispatch, so with a delivery that never settles it is never set.)
C1_DispatchLeadsToExit == (pc = "dispatch") ~> (exitStatus # "running")

\* C2: no failure is fatal: the process never ends through an uncaught error or
\* an unhandled 'error' event; when it ends, it ends with process.exit(0).
C2_NeverUncaught == exitStatus \in {"running", "exit0"}

\* C3: fan-out isolation: whatever an adapter did (threw, rejected, resolved),
\* its result is recorded as soon as it did it, also when another adapter threw or
\* rejected; success is recorded exactly for an adapter that resolved true; a
\* throw or a rejection is recorded as a failure with its error text; and nothing
\* leaves the dispatch step as an exception or rejection.
C3_FanOutIsolation ==
    /\ ~escaped
    /\ \A ch \in Channels :
          /\ outcome[ch] # "none" =>
                /\ results[ch].state = "done"
                /\ results[ch].success = (outcome[ch] = "true")
          /\ outcome[ch] \in {"throw", "reject"} =>
                /\ results[ch].success = FALSE
                /\ results[ch].error = ErrorText(outcome[ch])
                /\ results[ch].error # ""
    /\ pc = "waitExit" =>
          \A ch \in config.enabled : results[ch].state = "done"

\* C3 witness: one adapter threw, the other resolved true, and both results are
\* recorded when the dispatch is over
C3_Witness ==
    /\ pc = "waitExit"
    /\ \E a \in Channels, b \in Channels :
          /\ outcome[a] = "throw" /\ results[a].success = FALSE
          /\ outcome[b] = "true" /\ results[b].success = TRUE

\* C17: in one invocation of the sound module's notifyTaskCompletion the
\* fallback tone is started at most once, whatever 'error' and 'close' events the
\* primary audio process emits
C17_BeepAtMostOnce == Len(beeps) <= 1

\* The places of the events of a kind in the run's history
Places(kind) == {i \in 1..Len(history) : history[i][1] = kind}
Before(kindA, kindB) == \A i \in Places(kindA), j \in Places(kindB) : i < j

\* C18: the summary is printed only after every adapter that was invoked has
\* settled and, when the sound channel is on, after the sound channel's own
\* delay has passed; the exit timer is set after the summary
C18_SummaryAfterSettled ==
    /\ summaryPrinted => \A ch \in config.enabled : results[ch].state = "done"
    /\ Before("invoke", "summary")
    /\ Before("settle", "summary")
    /\ Before("summary", "exitTimer")
    /\ config.sound /\ Places("summary") # {} =>
          Places("soundLog") # {} /\ Before("soundLog", "summary")

\* The primary audio process has failed: its spawn threw or failed, or it closed
\* with a code other than 0
PrimaryFailed ==
    \/ primary.state \in {"throw", "errored"}
    \/ primary.state = "closed" /\ primary.code # 0

\* C21: the fallback tone is started when the primary audio process has failed to
\* spawn or has closed with a non-zero exit code, and only then; it is never
\* started when the primary closed with exit code 0; every fallback tone has the
\* frequency chosen for the primary, which is the one of the event
C21_FallbackOnPrimaryFailure ==
    /\ PrimaryFailed => beeps # <<>>
    /\ beeps # <<>> => PrimaryFailed
    /\ primary.state = "closed" /\ primary.code = 0 => beeps = <<>>
    /\ \A i \in 1..Len(beeps) : beeps[i].freq = primary.freq
    /\ primary.state # "none" =>
          primary.freq = getBeepFrequency(SoundEventType, SoundNotificationType)

\* C21, the case: the primary of a permission prompt closed with code 1 and the
\* fallback tone was started at 1000 Hz
C21_Witness ==
    /\ primary = [state |-> "closed", freq |-> 1000, code |-> 1]
    /\ Len(beeps) = 1
    /\ beeps[1].freq = 1000

\* C24: the sound channel is started only once the dispatch of the network
\* adapters has been awaited: while the result of an adapter is pending nothing
\* of the sound channel has happened, so a delivery that never settles keeps the
\* sound from ever being played; and in the order of the run every invocation
\* and every settling of an adapter comes before the start of the sound
C24_SoundAfterFanOut ==
    /\ (\E ch \in Channels : results[ch].state = "pending") =>
          /\ primary = NoProcess /\ beeps = <<>>
          /\ ~soundTimer
          /\ Places("sound") = {}
    /\ primary # NoProcess => Places("sound") # {}
    /\ Before("invoke", "sound")
    /\ Before("settle", "sound")

\* C24, the case: both adapters were invoked, the Telegram delivery settled last
\* with false, and then the primary audio process was started
C24_Witness ==
    /\ config = [sound |-> TRUE, enabled |-> Channels]
    /\ primary.state = "running"
    /\ Len(history) >= 5
    /\ history[3] = <<"settle", "feishu">>
    /\ history[4] = <<"settle", "telegram">>
    /\ history[5] = <<"sound", "">>
    /\ outcome["telegram"] = "false"

-----------------------------------------------------------------------------
(* Claims about generateMessage and extractTaskSummary *)

SumDone == sumPc = "done"
\* extractTaskSummary was called and read the file
SumFileRead ==
    /\ ~sumHook.isNull /\ sumHook.hook_event_name \in {"Stop", "SubagentStop"}
    /\ Truthy(sumHook.transcript_path) /\ sumFile.state = "ok"

\* C8: generateMessage follows its four rules in priority order: (1) no event:
\* the fallback; (2) 'Notification' with a non-empty message: that message,
\* whatever the other fields; (3) 'Stop' / 'SubagentStop': the prefix of the kind
\* followed by the summary when extractTaskSummary gave a (non-empty) summary,
\* otherwise the completion sentence of the kind, never the fallback; (4) any
\* other case: the fallback.
C8_GenerateMessageRules ==
    SumDone =>
        LET name == sumHook.hook_event_name
            found == sumSummary # NullText /\ sumSummary # <<>>
        IN  /\ sumHook.isNull => sumMessage = sumFallback
            /\ (~sumHook.isNull /\ name = "Notification"
                    /\ sumHook.message \notin {UndefinedText, NullText, <<>>})
                  => sumMessage = sumHook.message
            /\ (~sumHook.isNull /\ name = "Stop") =>
                  /\ found => sumMessage = MsgCompletedPrefix \o sumSummary
                  /\ ~found => sumMessage = MsgCompleted
                  /\ sumMessage # sumFallback
            /\ (~sumHook.isNull /\ name = "SubagentStop") =>
                  /\ found => sumMessage = MsgSubtaskPrefix \o sumSummary
                  /\ ~found => sumMessage = MsgSubtaskCompleted
                  /\ sumMessage # sumFallback
            /\ (~sumHook.isNull /\ name \notin {"Stop", "SubagentStop"}
                    /\ ~(name = "Notification"
                          /\ sumHook.message \notin {UndefinedText, NullText, <<>>}))
                  => sumMessage = sumFallback

\* C8 witness: a 'Stop' event whose transcript gave a summary, and the message is
\* the prefix followed by it
C8_Witness ==
    /\ SumDone /\ sumHook.hook_event_name = "Stop"
    /\ sumSummary = <<"o", "k">>
    /\ sumMessage = MsgCompletedPrefix \o <<"o", "k">>

\* The record of line l is an assistant record with a non-empty text segment
HasTextSegment(l) ==
    /\ l.json = "object" /\ l.type = "assistant" /\ l.k = "array"
    /\ \E i \in 1..Len(l.segs) :
          l.segs[i].type = "text" /\ l.segs[i].text \notin {UndefinedText, NullText, <<>>}

\* C9: the summary is built from the latest assistant record with a non-empty
\* text segment, the other lines being skipped; it is null exactly when there is
\* no such record.
C9_LatestTextRecordWins ==
    (SumDone /\ SumFileRead) =>
        LET at == {i \in 1..Len(sumFile.lines) : HasTextSegment(sumFile.lines[i])}
        IN  IF at = {} THEN sumSummary = NullText
            ELSE LET last == CHOOSE i \in at : \A j \in at : j <= i
                 IN  /\ sumSummary # NullText
                     /\ sumSummary = SummaryOf(TextContent(sumFile.lines[last].segs))

\* The text of the record the scan stops at (the latest with a joined text that
\* is not empty), or null
MatchedText ==
    LET at == {i \in 1..Len(sumFile.lines) : LineMatches(sumFile.lines[i])}
    IN  IF at = {} THEN NullText
        ELSE TextContent(sumFile.lines[CHOOSE i \in at : \A j \in at : j <= i].segs)

\* C10 as claimed: the summary of a text longer than 100 characters is exactly
\* its first 100 characters followed by the marker, and a text of at most 100
\* characters is its own summary, for every text.
C10_ExactPrefix ==
    (SumDone /\ SumFileRead /\ MatchedText # NullText) =>
        IF Len(MatchedText) > SummaryLength
        THEN sumSummary = SubSeq(MatchedText, 1, SummaryLength) \o Ellipsis
        ELSE sumSummary = MatchedText

\* C10 as amended: the summary is the first 100 characters of the text (the whole
\* text when it has at most 100), with every line break in them replaced by a
\* space and the white space at their two ends removed, followed by the marker
\* exactly when the text is longer than 100 characters; it is those characters
\* unchanged when they hold no line break and neither begin nor end with white
\* space.
C10_TrimmedPrefix ==
    (SumDone /\ SumFileRead /\ MatchedText # NullText) =>
        LET t == MatchedText
            n == IF Len(t) > SummaryLength THEN SummaryLength ELSE Len(t)
            marker == IF Len(t) > SummaryLength THEN Ellipsis ELSE <<>>
            bodyLen == Len(sumSummary) - Len(marker)
        IN  /\ bodyLen >= 0
            /\ SubSeq(sumSummary, bodyLen + 1, Len(sumSummary)) = marker
            /\ \E a \in 1..(n + 1) :
                  /\ a + bodyLen - 1 <= n
                  /\ \A i \in 1..n :
                        IF i < a \/ i > a + bodyLen - 1
                        THEN t[i] \in WhiteSpace
                        ELSE sumSummary[i - a + 1] = (IF t[i] = "\n" THEN " " ELSE t[i])
            /\ bodyLen > 0 =>
                  sumSummary[1] \notin WhiteSpace /\ sumSummary[bodyLen] \notin WhiteSpace
            /\ (n > 0 /\ t[1] \notin WhiteSpace /\ t[n] \notin WhiteSpace
                    /\ \A i \in 1..n : t[i] # "\n")
                  => sumSummary = SubSeq(t, 1, n) \o marker

\* C10 witness: a text longer than 100 characters that begins with a line break:
\* the summary ends with the marker and is shorter than 100 characters plus it
C10_Witness ==
    /\ SumDone /\ SumFileRead /\ MatchedText # NullText
    /\ Len(MatchedText) > SummaryLength
    /\ MatchedText[1] = "\n"
    /\ Len(sumSummary) < SummaryLength + Len(Ellipsis)
    /\ SubSeq(sumSummary, Len(sumSummary) - 2, Len(sumSummary)) = Ellipsis

\* extractTaskSummary was called
SumExtractCalled ==
    SumDone /\ ~sumHook.isNull /\ sumHook.hook_event_name \in {"Stop", "SubagentStop"}

\* C11: for a path that is undefined, null or empty, for a file that does not
\* exist, for one that cannot be read and for an empty one, extractTaskSummary
\* returns null and does not throw
C11_FailsClosed ==
    /\ SumExtractCalled => sumSummary # ThrownText
    /\ ( /\ SumExtractCalled
         /\ \/ sumHook.transcript_path \in {Undefined, Null, ""}
            \/ sumFile.state \in {"missing", "unreadable"}
            \/ sumFile = [state |-> "ok", lines |-> <<>>] )
       => sumSummary = NullText

\* C11, the case: the transcript exists and cannot be read
C11_Witness ==
    /\ SumExtractCalled
    /\ sumHook.transcript_path = "/t.jsonl"
    /\ sumFile.state = "unreadable"
    /\ sumSummary = NullText

-----------------------------------------------------------------------------
(* Claims about the message of the Telegram notifyTaskCompletion *)

MsgDone == msgPc = "done"

\* C6: whatever the task text is made of and however long it is, the message
\* handed to sendMessage is at most 4096 characters long
C6_MessageWithinLimit == MsgDone => TextLen(msgMessage) <= TelegramLimit

\* Whether text ends with the characters of marker
EndsWith(text, marker) ==
    /\ TextLen(text) >= Len(marker)
    /\ LET last == text[Len(text)]
       IN  last.n = 1 /\ Len(last.s) >= Len(marker)
           /\ SubSeq(last.s, Len(last.s) - Len(marker) + 1, Len(last.s)) = marker

\* C7: with H the length of the fixed header, a task text longer than
\* 4096 - H - 10 is cut so that H plus the length of the cut text, marker
\* included, is at most 4096 - 10, and the cut text ends with the marker; a task
\* text of at most 4096 - H - 10 characters is left as it is
C7_TruncationBound ==
    MsgDone =>
        IF TextLen(msgTask) > TelegramLimit - msgFixedLength - SafetyMargin
        THEN /\ msgFixedLength + TextLen(msgContent) <= TelegramLimit - SafetyMargin
             /\ EndsWith(msgContent, Ellipsis)
        ELSE msgContent = msgTask

\* How the task text begins: its first run, when that is one of the beginnings
TaskBeginning ==
    IF msgTask # <<>> /\ msgTask[1].n = 1 /\ msgTask[1].s \in MsgPrefixes
    THEN msgTask[1].s ELSE <<>>

\* The beginnings with a waiting keyword, whatever else they hold: 'Idle ',
\* 'permission denied, please confirm', 'error: 权限', 'Exception 等待',
\* '请输入 502', 'ELICITATION', 'bridle'
WaitingBeginnings ==
    { <<"I", "d", "l", "e", " ">>,
      <<"p", "e", "r", "m", "i", "s", "s", "i", "o", "n", " ", "d", "e", "n", "i", "e", "d",
        ",", " ", "p", "l", "e", "a", "s", "e", " ", "c", "o", "n", "f", "i", "r", "m">>,
      <<"e", "r", "r", "o", "r", ":", " ", "U6743", "U9650">>,
      <<"E", "x", "c", "e", "p", "t", "i", "o", "n", " ", "U7B49", "U5F85">>,
      <<"U8BF7", "U8F93", "U5165", " ", "5", "0", "2">>,
      <<"E", "L", "I", "C", "I", "T", "A", "T", "I", "O", "N">>,
      <<"b", "r", "i", "d", "l", "e">> }

\* The beginnings with a failure indicator and no waiting keyword: 'Error ',
\* 'HTTP 503 ', 'Error: HTTP 502 Bad Gateway', 'http500', '任务失败'
FailedBeginnings ==
    { <<"E", "r", "r", "o", "r", " ">>,
      <<"H", "T", "T", "P", " ", "5", "0", "3", " ">>,
      <<"E", "r", "r", "o", "r", ":", " ", "H", "T", "T", "P", " ", "5", "0", "2", " ",
        "B", "a", "d", " ", "G", "a", "t", "e", "w", "a", "y">>,
      <<"h", "t", "t", "p", "5", "0", "0">>,
      <<"U4EFB", "U52A1", "U5931", "U8D25">> }

\* C14: a text with a waiting keyword is 'waiting for input' also when it holds a
\* failure indicator; a text with a failure indicator and no waiting keyword is
\* 'failed'; any other text is 'completed'. (The fillers of the task texts hold
\* no keyword, so the beginning decides.)
C14_StatusPrecedence ==
    MsgDone =>
        msgStatus = IF TaskBeginning \in WaitingBeginnings THEN StatusWaiting
                    ELSE IF TaskBeginning \in FailedBeginnings THEN StatusFailed
                    ELSE StatusCompleted

\* C14, the case: a text that begins with 'error: 权限' is waiting for input
C14_Witness ==
    /\ MsgDone
    /\ TaskBeginning = <<"e", "r", "r", "o", "r", ":", " ", "U6743", "U9650">>
    /\ msgStatus = StatusWaiting

\* What each of the five characters is replaced by
Entity(c) ==
    CASE c = "&" -> <<"&", "a", "m", "p", ";">>
      [] c = "<" -> <<"&", "l", "t", ";">>
      [] c = ">" -> <<"&", "g", "t", ";">>
      [] c = "\"" -> <<"&", "q", "u", "o", "t", ";">>
      [] c = "'" -> <<"&", "#", "0", "3", "9", ";">>
      [] OTHER -> <<c>>

RECURSIVE EntitiesOf(_)
EntitiesOf(chars) ==
    IF chars = <<>> THEN <<>> ELSE Entity(Head(chars)) \o EntitiesOf(Tail(chars))

\* The characters that occur in a text
CharsOf(text) == UNION {{text[i].s[j] : j \in 1..Len(text[i].s)} : i \in 1..Len(text)}

\* escapeHtml replaces every & < > " ' by its entity and leaves every other
\* character as it is, so '<script>' gives '&lt;script&gt;' and "'" gives
\* '&#039;', and its output holds no raw < > " or '
EscapeMapsEntities ==
    MsgDone =>
        /\ Len(msgEscaped) = Len(msgContent)
        /\ \A i \in 1..Len(msgContent) :
              /\ msgEscaped[i].n = msgContent[i].n
              /\ msgEscaped[i].s = EntitiesOf(msgContent[i].s)
        /\ msgContent = Lit(<<"<", "s", "c", "r", "i", "p", "t", ">">>) =>
              msgEscaped = Lit(<<"&", "l", "t", ";", "s", "c", "r", "i", "p", "t",
                                 "&", "g", "t", ";">>)
        /\ msgContent = Rep(<<"'">>, 1) => msgEscaped = Lit(<<"&", "#", "0", "3", "9", ";">>)
        /\ CharsOf(msgEscaped) \cap {"<", ">", "\"", "'"} = {}

\* C19 as stated: the mapping, and escapeHtml is idempotent on text that is
\* escaped and safe already, that is text with no raw < > " or ' in it, such as
\* '&lt;b&gt;': escaping the escaped text again changes nothing
C19_IdempotentOnEscaped ==
    /\ EscapeMapsEntities
    /\ MsgDone /\ CharsOf(msgContent) \cap {"<", ">", "\"", "'"} = {} =>
          escapeHtml(msgEscaped) = msgEscaped

\* C19 as amended: the mapping, and escapeHtml changes nothing, once or twice, on
\* a text with none of the five characters & < > " ' in it; a text with any of
\* them in it, escaped text included, is changed by every further escape
C19_EscapeHtml ==
    /\ EscapeMapsEntities
    /\ MsgDone /\ CharsOf(msgContent) \cap {"&", "<", ">", "\"", "'"} = {} =>
          msgEscaped = msgContent /\ escapeHtml(msgEscaped) = msgEscaped
    /\ MsgDone /\ CharsOf(msgContent) \cap {"&", "<", ">", "\"", "'"} # {} =>
          msgEscaped # msgContent /\ escapeHtml(msgEscaped) # msgEscaped

\* C19, the case: '<script>' was escaped
C19_Witness ==
    /\ MsgDone
    /\ msgContent = Lit(<<"<", "s", "c", "r", "i", "p", "t", ">">>)
    /\ msgEscaped = Lit(<<"&", "l", "t", ";", "s", "c", "r", "i", "p", "t", "&", "g", "t", ";">>)

\* The five entities
Entities == {Entity(c) : c \in {"&", "<", ">", "\"", "'"}}

\* One whole entity begins at place j of chars
EntityAt(chars, j) ==
    \E e \in Entities :
        /\ j + Len(e) - 1 <= Len(chars)
        /\ SubSeq(chars, j, j + Len(e) - 1) = e

\* The task text was cut
MsgTruncated == TextLen(msgTask) > MaxContentLength(msgFixedLength)

\* C25: the escaped body of the message holds no cut-off entity: every & in it
\* begins one whole entity among &amp; &lt; &gt; &quot; &#039;, for every task
\* text, cut or not, and wherever the cut falls; and the message ends with that
\* escaped body
C25_NoCutEntity ==
    MsgDone =>
        /\ \A i \in 1..Len(msgEscaped) :
              \A j \in 1..Len(msgEscaped[i].s) :
                  msgEscaped[i].s[j] = "&" => EntityAt(msgEscaped[i].s, j)
        /\ msgEscaped = escapeHtml(msgContent)
        /\ Len(msgMessage) >= Len(msgEscaped)
        /\ SubSeq(msgMessage, Len(msgMessage) - Len(msgEscaped) + 1, Len(msgMessage))
              = msgEscaped

\* C25, the case: a task text made of '&lt;' was cut inside one of them, and the
\* part that was left, '&l', is escaped as '&amp;l'
C25_Witness ==
    /\ MsgDone /\ MsgTruncated
    /\ Len(msgContent) = 3
    /\ msgContent[1].s = <<"&", "l", "t", ";">>
    /\ msgContent[2] = [s |-> <<"&", "l">>, n |-> 1]
    /\ msgEscaped[2] = [s |-> <<"&", "a", "m", "p", ";", "l">>, n |-> 1]
    /\ EndsWith(msgEscaped, Ellipsis)

-----------------------------------------------------------------------------
(* Claims about the delivery of the Telegram message *)

Tunneled == tgConfig.proxy \in {"http", "https"}

\* C4: in the tunneled branch a POST is issued only after the proxy answered
\* CONNECT with status 200, over a TLS session on the tunnel socket whose server
\* name is the API host and not the proxy host; after an answer with any other
\* status the attempt is resolved false, no TLS session and no POST are ever
\* started, and CONNECT is not sent again
C4_PostOnlyThroughTunnel ==
    Tunneled =>
        /\ tgPosts > 0 =>
              /\ tgConnect.answered /\ tgConnect.status = 200
              /\ tgTls.socket = "tunnel"
              /\ tgTls.servername = tgConnect.target
              /\ tgTls.servername # tgConnect.to
        /\ tgConnect.answered /\ tgConnect.status # 200 =>
              /\ tgResolved /\ ~tgValue
              /\ tgTls = NoTls
              /\ tgPosts = 0
        /\ tgConnect.sent <= 1
        /\ tgPosts <= 1

\* C4, the case: the proxy answered 200 and the POST went through the tunnel
C4_Witness ==
    /\ Tunneled
    /\ tgConnect.status = 200
    /\ tgPosts = 1
    /\ tgTls = [socket |-> "tunnel", servername |-> ApiHost]
    /\ tgResult = "true"

RECURSIVE Concat(_)
Concat(chunks) == IF chunks = <<>> THEN "" ELSE Head(chunks) \o Concat(Tail(chunks))

\* The bodies that are JSON objects with a truthy ok
OkBodies ==
    { "{\"ok\":true,\"result\":{\"message_id\":7}}", "{\"ok\":true}",
      "{\"ok\":\"yes\"}", "{\"ok\":1}" }

\* C5: the attempt resolves true only when the whole body has been received and
\* is a JSON object with a truthy ok; once the body has ended, any other body
\* (not JSON, or JSON with ok missing or falsy) resolves false, in the direct and
\* in the tunneled branch alike
C5_TrueOnlyForOkBody ==
    /\ tgResolved /\ tgValue =>
          /\ tgStage = "ended"
          /\ tgPending = <<>>
          /\ tgResponseData = Concat(tgBody)
          /\ Concat(tgBody) \in OkBodies
    /\ tgStage = "ended" /\ Concat(tgBody) \notin OkBodies => tgResolved /\ ~tgValue

\* C5, the case: a body that came in two chunks through the tunnel, whose first
\* chunk alone is an ok answer and whose whole is not JSON, resolved false
C5_Witness ==
    /\ Tunneled
    /\ tgStage = "ended"
    /\ tgBody = <<"{\"ok\":true}", "<html>">>
    /\ tgResult = "false"

\* No connection was opened, to the API host or to the proxy
NoNetwork ==
    /\ tgStage \in {"none", "thrown"}
    /\ tgConnect = NoConnect
    /\ tgTls = NoTls
    /\ tgPosts = 0

\* C15: the delivery of a disabled Telegram channel does nothing on the network
\* and its result is true
C15_DisabledResolvesTrue ==
    tgPc = "done" /\ tgConfig.flag # "on" => NoNetwork /\ tgResult = "true"

\* C16: when the channel is enabled and the bot token or the chat id is missing,
\* the delivery returns false at once, the incomplete configuration is logged,
\* nothing is thrown and no connection is ever opened
C16_ConfigIncomplete ==
    tgPc # "call" /\ tgConfig.flag = "on" /\ ~(tgConfig.botToken /\ tgConfig.chatId) =>
        /\ tgPc = "done" /\ tgResult = "false"
        /\ \E i \in 1..Len(tgLog) : tgLog[i] = "incomplete"
        /\ tgStage = "none"
        /\ NoNetwork

\* C16, the case: enabled, with a token, without a chat id, behind a proxy
C16_Witness ==
    /\ tgConfig = [flag |-> "on", botToken |-> TRUE, chatId |-> FALSE, proxy |-> "http"]
    /\ tgPc = "done"
    /\ tgResult = "false"

\* A network failure has happened in the attempt: while connecting, in the
\* CONNECT exchange, in the TLS handshake or the writing of the POST, or while the
\* body was being read
NetworkFailed == tgStage \in {"failed", "aborted"}

\* C20: after a network failure at any stage of a delivery attempt, in the direct
\* and in the tunneled branch, the promise of the attempt is never resolved true,
\* and it does not stay pending: once nothing more can happen in the attempt it
\* has been resolved false
C20_FailureResolvesFalse ==
    /\ NetworkFailed => ~(tgResolved /\ tgValue)
    /\ NetworkFailed /\ ~ENABLED NextTransport => tgResolved /\ ~tgValue

\* C22: an attempt takes one branch, fixed by the configuration. With a proxy
\* configured no connection is opened directly to the API host, also after the
\* connection to the proxy or the CONNECT request has failed; with no proxy
\* configured no CONNECT request is sent; in either branch at most one POST is
\* issued
C22_OneBranch ==
    /\ tgConfig.proxy # "none" =>
          /\ tgTls.socket # "direct"
          /\ tgPosts > 0 => tgTls.socket = "tunnel" /\ tgConnect.sent = 1
    /\ tgConfig.proxy = "none" =>
          /\ tgConnect = NoConnect
          /\ tgTls.socket # "tunnel"
          /\ tgPosts > 0 => tgTls.socket = "direct"
    /\ tgPosts <= 1

\* C22, the case: the connection to the proxy failed and the attempt ended there,
\* with no POST and no TLS session
C22_Witness ==
    /\ Tunneled
    /\ tgStage = "failed"
    /\ tgConnect.sent = 1 /\ ~tgConnect.answered
    /\ tgPosts = 0 /\ tgTls = NoTls
    /\ tgResult = "false"

-----------------------------------------------------------------------------
(* Claims about readStdinJson *)

\* The lines the reader has delivered: those of the payload that are no longer
\* pending
LinesRead ==
    LET payload == CHOOSE p \in StdinPayloads :
                       Concat(p) = stdinData \o Concat(stdinPending)
    IN  SubSeq(payload, 1, Len(payload) - Len(stdinPending))

\* The contents, line by line, that are JSON as they stand, line breaks included
JsonContents ==
    { <<"{\"hook_event_name\":\"Stop\"}">>,
      <<"{\"hook_event_name\":\"Notification\",",
        "\"notification_type\":\"permission_prompt\",\"message\":\"hi\"}">>,
      <<"null">> }

\* C12: when the content read from stdin does not parse as JSON, readStdinJson
\* resolves null, after a warning when there was something to parse; the promise
\* is not rejected and nothing is thrown out of the 'close' handler
C12_UnparsableGivesNull ==
    /\ pc = "readStdin" => exitStatus = "running"
    /\ (hookResolved /\ rlState = "closed" /\ LinesRead \notin JsonContents) =>
          /\ hookInput = NoHookInput
          /\ ~IsBlank(stdinData) => \E i \in 1..Len(history) : history[i] = <<"stdin", "warn">>

\* C13: readStdinJson always resolves. On an interactive terminal it resolves
\* null at once, with no reader and no timer; on a pipe, as long as it has not
\* resolved the reader is open and the 1000 ms timer is pending, and it resolves
\* at the first of the pipe's close, the reader's error and the timer, which all
\* clear the timer; when nothing has been read by then the result is null
C13_StdinAlwaysResolves ==
    /\ [](stdinTTY /\ pc # "start" =>
             hookResolved /\ hookInput = NoHookInput /\ rlState = "none" /\ ~stdinTimer)
    /\ [](~stdinTTY /\ pc = "readStdin" /\ ~hookResolved => stdinTimer /\ rlState = "open")
    /\ [](~stdinTTY /\ hookResolved => ~stdinTimer)
    /\ [](hookResolved /\ stdinData = "" => hookInput = NoHookInput)
    /\ (pc = "start") ~> hookResolved

\* C13, the case: a pipe that carried nothing and was never closed; the timer
\* fired and the result is null
C13_Witness ==
    /\ ~stdinTTY /\ ~stdinWillClose
    /\ stdinData = "" /\ stdinPending = <<>>
    /\ rlState = "closed"
    /\ hookResolved /\ hookInput = NoHookInput

\* The step in which the 1000 ms timer fires before the pipe has closed, after
\* something has been read
TimerFiresAfterLines ==
    /\ stdinTimer /\ ~stdinTimer'
    /\ rlState = "open" /\ rlState' = "closed"
    /\ stdinData # ""
    /\ ~(stdinPending = <<>> /\ stdinWillClose)

\* C23: when the timer fires before the pipe has closed and after lines have been
\* read, the promise, unresolved until then, resolves with what the 'close'
\* handler makes of the data read so far: the parsed event when the data parse,
\* null otherwise; a resolved promise keeps its value, and once the reader is
\* closed no line is added to the data
C23_TimerClosesThenResolves ==
    [][ /\ TimerFiresAfterLines =>
              /\ ~hookResolved /\ hookResolved'
              /\ hookInput' = IF JsonParseStdin(stdinData).ok
                               THEN JsonParseStdin(stdinData).value
                               ELSE NoHookInput
        /\ hookResolved => hookResolved' /\ hookInput' = hookInput
        /\ rlState = "closed" =>
              rlState' = "closed" /\ stdinData' = stdinData /\ stdinPending' = stdinPending
      ]_vars

\* C23, the case: the Stop event was read from a pipe that is never closed; the
\* timer closed the reader and the result is the event, not null
C23_Witness ==
    /\ ~stdinTTY /\ ~stdinWillClose
    /\ stdinData = "{\"hook_event_name\":\"Stop\"}"
    /\ rlState = "closed"
    /\ hookResolved /\ hookInput = StopEvent

====
